---------------------------- MODULE Spec2Model ----------------------------
(***************************************************************************)
(* Symbolic models of Lattice FPGA primitives (python/lattice.py): the     *)
(* LUT4 decode, the 2-to-1 multiplexer, bit extraction and the Slice that  *)
(* wires two LUT4s and two multiplexers together.                          *)
(*                                                                         *)
(* The program builds z3 terms.  A term is represented here by its sort    *)
(* and by the value it takes under one assignment `env` of the named       *)
(* symbolic constants (a z3 model); the specifications range over every    *)
(* assignment in their bounds, so a property of all reachable states is a  *)
(* property under every assignment.  A z3 operation that raises            *)
(* Z3Exception yields the value Z3Exception, and the Python function that  *)
(* evaluated it stops there.                                               *)
(***************************************************************************)
EXTENDS Integers, Sequences, FiniteSets, TLC

VARIABLES
    env,     \* the assignment of the named symbolic constants: name -> number
    heap,    \* the constructed LUT4 / MUX / Slice instances, in order of construction
    decls,   \* the names of the symbolic constants created so far, in order
    frame,   \* the running (or last finished) call: its arguments, locals, position, result
    hist     \* an earlier (or side-by-side) call, kept for comparison

vars == <<env, heap, decls, frame, hist>>

---------------------------------------------------------------------------
(* Bounds of the model.                                                    *)

\* LUT4 configurations checked in SpecLut: every 16-bit value with at most
\* MaxOnes bits set, and the all-ones value.
MaxOnes == 2

\* Bit-vector widths checked in SpecExtract and SpecMux: 1..MaxWidth.
MaxWidth == 4

\* Instances constructed in one model in SpecNames.
MaxInstances == 2

---------------------------------------------------------------------------
(* z3 values.                                                              *)

\* Width of a LUT4 configuration, BitVec(prefix + "_init", 16).
InitWidth == 16

\* Width of the Slice's input: extract_to_bool_array(7, 4, ...) and (3, 0, ...).
InputWidth == 8

Pow2(n) == 2 ^ n

\* Bit number i of the natural number v (bit 0 is the least significant).
Bit(v, i) == (v \div Pow2(i)) % 2

\* A bit-vector term of the given size whose value is val.
BV(size, val) == [sort |-> "BitVec", size |-> size, val |-> val]

\* A boolean term; val is 1 for true and 0 for false.
BoolV(val) == [sort |-> "Bool", size |-> 0, val |-> val]

\* What a z3 call yields when it raises.
Z3Exception == [sort |-> "Z3Exception", size |-> 0, val |-> 0]

\* A Python local that has not been assigned.
None == [sort |-> "None", size |-> 0, val |-> 0]

BoolVals == {BoolV(0), BoolV(1)}

IsTerm(a) == a.sort \in {"Bool", "BitVec"}

\* z3.BitVecVal(val, size)
BitVecVal(val, size) == BV(size, val % Pow2(size))

\* z3.BitVec(name, size): a named symbolic constant.
BitVec(name, size) == [sort |-> "BitVec", size |-> size, name |-> name]

\* z3.Bool(name): a named symbolic boolean constant.
Bool(name) == [sort |-> "Bool", size |-> 0, name |-> name]

\* The value of a named constant under the assignment e.
Eval(c, e) ==
    IF c.sort = "BitVec" THEN BV(c.size, e[c.name] % Pow2(c.size))
    ELSE BoolV(e[c.name] % 2)

\* z3.Extract(high, low, a): bits high..low of a, a bit-vector of
\* high - low + 1 bits; raises unless a is a bit-vector and
\* 0 <= low <= high < size of a.
Extract(high, low, a) ==
    IF a.sort # "BitVec" \/ low > high \/ low < 0 \/ high >= a.size
    THEN Z3Exception
    ELSE BV(high - low + 1, (a.val \div Pow2(low)) % Pow2(high - low + 1))

\* z3.If(c, a, b): a where c is true, b where it is false; raises unless c
\* is boolean and a and b are terms of one sort.
If(c, a, b) ==
    IF c.sort # "Bool" \/ ~IsTerm(a) \/ ~IsTerm(b)
       \/ a.sort # b.sort \/ a.size # b.size
    THEN Z3Exception
    ELSE IF c.val = 1 THEN a ELSE b

\* a == b on z3 terms: a boolean term; raises unless a and b are terms of
\* one sort.
Eq(a, b) ==
    IF ~IsTerm(a) \/ ~IsTerm(b) \/ a.sort # b.sort \/ a.size # b.size
    THEN Z3Exception
    ELSE BoolV(IF a.val = b.val THEN 1 ELSE 0)

---------------------------------------------------------------------------
(* lut4(init, A, B, C, D)                                                  *)

\* line 5: tmp = If(A, Extract(15, 8, init), Extract(7, 0, init))
lut4_line5(A, init) == If(A, Extract(15, 8, init), Extract(7, 0, init))

\* line 6: tmp = If(B, Extract(7, 4, tmp), Extract(3, 0, tmp))
lut4_line6(B, tmp) == If(B, Extract(7, 4, tmp), Extract(3, 0, tmp))

\* A slip in line 7: the upper pair taken one bit too low.
lut4_line7_low(C, tmp) == If(C, Extract(2, 1, tmp), Extract(1, 0, tmp))

\* line 7: tmp = If(C, Extract(3, 2, tmp), Extract(1, 0, tmp))
lut4_line7(C, tmp) == If(C, Extract(3, 2, tmp), Extract(1, 0, tmp))

\* A slip in line 8: the two branches exchanged.
lut4_line8_swapped(D, tmp) == If(D, Extract(0, 0, tmp), Extract(1, 1, tmp))

\* line 8: tmp = If(D, Extract(1, 1, tmp), Extract(0, 0, tmp))
lut4_line8(D, tmp) == If(D, Extract(1, 1, tmp), Extract(0, 0, tmp))

\* A variant of line 9 that converts the bit to a boolean before returning.
lut4_line9_as_bool(tmp) == Eq(tmp, BitVecVal(1, 1))

\* line 9: return tmp
lut4_line9(tmp) == tmp

\* The whole function: the four stages in order, then the return.  A stage
\* that raises ends the function: the later stages pass Z3Exception on.
lut4(init, A, B, C, D) ==
    lut4_line9(lut4_line8(D, lut4_line7(C, lut4_line6(B, lut4_line5(A, init)))))

\* A slip in mux: the two operands exchanged.
mux_swapped(C, A, B) == If(C, B, A)

\* mux(C, A, B): line 13
mux(C, A, B) == If(C, A, B)

---------------------------------------------------------------------------
(* extract_to_bool_array(high, low, x)                                     *)

\* A slip in line 18: range(high, low, -1), which stops before `low`.
range_has_next_exclusive(i, low) == i > low

\* line 18: for i in range(high, low - 1, -1): whether the range, counting
\* down, still yields i.
range_has_next(i, low) == i > low - 1

\* lines 19-20: xi = Extract(i, i, x); b = xi == BitVecVal(1, 1)
extract_body(i, x) == Eq(Extract(i, i, x), BitVecVal(1, 1))

RECURSIVE extract_loop(_, _, _, _)
\* The loop of lines 18-21 from iteration i on, with `ret` built so far:
\* the list returned, or raised if an iteration raises.
extract_loop(i, low, x, ret) ==
    IF range_has_next(i, low)
    THEN LET b == extract_body(i, x)
         IN  IF IsTerm(b) THEN extract_loop(i - 1, low, x, Append(ret, b))
             ELSE [raised |-> TRUE, ret |-> <<>>]
    ELSE [raised |-> FALSE, ret |-> ret]

\* The whole function: ret = [] and the loop, then return ret.
extract_to_bool_array(high, low, x) == extract_loop(high, low, x, <<>>)

---------------------------------------------------------------------------
(* Constructors.                                                           *)

\* LUT4.__init__(self, prefix)
LUT4_new(prefix) ==
    [cls |-> "LUT4", prefix |-> prefix, mem |-> BitVec(prefix \o "_init", InitWidth)]

\* MUX.__init__(self, prefix)
MUX_new(prefix) ==
    [cls |-> "MUX", prefix |-> prefix, selector |-> Bool(prefix \o "_selector")]

\* A slip in Slice.__init__: the second LUT4 given the first one's sub-prefix.
Slice_new_same_lut_prefix(prefix, solver) ==
    [cls     |-> "Slice",
     prefix  |-> prefix,
     solver  |-> solver,
     lut4_0  |-> LUT4_new(prefix \o "_lut_0"),
     lut4_1  |-> LUT4_new(prefix \o "_lut_0"),
     pfumx   |-> MUX_new(prefix \o "_PFUMX"),
     l6mux21 |-> MUX_new(prefix \o "_L6MUX21")]

\* Slice.__init__(self, prefix, solver)
Slice_new(prefix, solver) ==
    [cls     |-> "Slice",
     prefix  |-> prefix,
     solver  |-> solver,
     lut4_0  |-> LUT4_new(prefix \o "_lut_0"),
     lut4_1  |-> LUT4_new(prefix \o "_lut_1"),
     pfumx   |-> MUX_new(prefix \o "_PFUMX"),
     l6mux21 |-> MUX_new(prefix \o "_L6MUX21")]

\* The names of the symbolic constants a constructor creates, in the order
\* it creates them.
CreatedNames(obj) ==
    IF obj.cls = "LUT4" THEN <<obj.mem.name>>
    ELSE IF obj.cls = "MUX" THEN <<obj.selector.name>>
    ELSE <<obj.lut4_0.mem.name, obj.lut4_1.mem.name,
           obj.pfumx.selector.name, obj.l6mux21.selector.name>>

---------------------------------------------------------------------------
(* Slice.__call__(self, inputs, FXA, FXB), under the assignment e.         *)

\* LUT4.__call__ applied to the list extract_to_bool_array returned
\* (self.lut4_k(*bits)): lut4 on the owned configuration and the four bits.
LUT4_apply(lut, e, bits) ==
    IF bits.raised \/ Len(bits.ret) # 4 THEN Z3Exception
    ELSE lut4(Eval(lut.mem, e), bits.ret[1], bits.ret[2], bits.ret[3], bits.ret[4])

\* MUX.__call__(self, A, B): line 40
MUX_apply(m, e, A, B) == mux(Eval(m.selector, e), A, B)

\* A slip in line 53: the first LUT4 fed from bits 3-0.
Slice_F0_low_bits(self, e, inputs) ==
    LUT4_apply(self.lut4_0, e, extract_to_bool_array(3, 0, inputs))

\* line 53: F0 = self.lut4_0(*extract_to_bool_array(7, 4, inputs))
Slice_F0(self, e, inputs) ==
    LUT4_apply(self.lut4_0, e, extract_to_bool_array(7, 4, inputs))

\* A slip in line 54: the second output decoded by the first LUT4.
Slice_F1_first_lut(self, e, inputs) ==
    LUT4_apply(self.lut4_0, e, extract_to_bool_array(3, 0, inputs))

\* line 54: F1 = self.lut4_1(*extract_to_bool_array(3, 0, inputs))
Slice_F1(self, e, inputs) ==
    LUT4_apply(self.lut4_1, e, extract_to_bool_array(3, 0, inputs))

\* line 55: OFX0 = self.pfumx(F0, F1)
Slice_OFX0(self, e, F0, F1) == MUX_apply(self.pfumx, e, F0, F1)

\* A slip in line 56: the second multiplexer's output taken from the first.
Slice_OFX1_pfumx(self, e, FXA, FXB) == MUX_apply(self.pfumx, e, FXA, FXB)

\* line 56: OFX1 = self.l6mux21(FXA, FXB)
Slice_OFX1(self, e, FXA, FXB) == MUX_apply(self.l6mux21, e, FXA, FXB)

\* A variant of the call that exchanges the two LUT4s of self as it goes.
Slice_effect_swaps_luts(self, e, inputs, FXA, FXB) ==
    LET F0 == Slice_F0(self, e, inputs)
        F1 == Slice_F1(self, e, inputs)
    IN  [self |-> [self EXCEPT !.lut4_0 = self.lut4_1, !.lut4_1 = self.lut4_0],
         raised |-> FALSE, F0 |-> F0, F1 |-> F1,
         OFX0 |-> Slice_OFX0(self, e, F0, F1),
         OFX1 |-> Slice_OFX1(self, e, FXA, FXB)]

\* The four values of lines 53-56 as the call returns them, or raised if
\* one of the lines raised.
Slice_return(self, F0, F1, OFX0, OFX1) ==
    IF IsTerm(F0) /\ IsTerm(F1) /\ IsTerm(OFX0) /\ IsTerm(OFX1)
    THEN [self |-> self, raised |-> FALSE,
          F0 |-> F0, F1 |-> F1, OFX0 |-> OFX0, OFX1 |-> OFX1]
    ELSE [self |-> self, raised |-> TRUE,
          F0 |-> None, F1 |-> None, OFX0 |-> None, OFX1 |-> None]

\* The whole call, lines 53-57: self as the call leaves it (no line assigns
\* to it) and the four values returned, or raised.
Slice_effect(self, e, inputs, FXA, FXB) ==
    LET F0 == Slice_F0(self, e, inputs)
        F1 == Slice_F1(self, e, inputs)
    IN  Slice_return(self, F0, F1, Slice_OFX0(self, e, F0, F1),
                     Slice_OFX1(self, e, FXA, FXB))

\* The frame of a finished Slice call.
Slice_frame(r, inputs, FXA, FXB) ==
    [fn |-> "Slice.__call__", pc |-> IF r.raised THEN "raise" ELSE "done",
     inputs |-> inputs, FXA |-> FXA, FXB |-> FXB,
     F0 |-> r.F0, F1 |-> r.F1, OFX0 |-> r.OFX0, OFX1 |-> r.OFX1]

---------------------------------------------------------------------------
(* Frames.                                                                 *)

Idle == [fn |-> "none", pc |-> "idle"]

NoHist == [kind |-> "none"]

\* The frame of lut4 on entry.
lut4_entry(init, A, B, C, D) ==
    [fn |-> "lut4", pc |-> "line5", init |-> init,
     A |-> A, B |-> B, C |-> C, D |-> D, tmp |-> None, ret |-> None]

\* One assignment to tmp: the frame after it, at `next` or raised.
lut4_assign(f, v, next) ==
    IF IsTerm(v) THEN [f EXCEPT !.tmp = v, !.pc = next]
    ELSE [f EXCEPT !.pc = "raise"]

---------------------------------------------------------------------------
(* Actions                                                                 *)

\* LUT4(prefix): constructs the instance and creates its configuration.
LUT4_init(prefix) ==
    /\ heap' = Append(heap, LUT4_new(prefix))
    /\ decls' = decls \o CreatedNames(LUT4_new(prefix))
    /\ UNCHANGED <<env, frame, hist>>

\* LUT4.__call__(self, A, B, C, D): enters lut4 with the owned configuration.
LUT4_call(self, A, B, C, D) ==
    /\ self.cls = "LUT4"
    /\ frame.pc \in {"idle", "done", "raise"}
    /\ frame' = lut4_entry(Eval(self.mem, env), A, B, C, D)
    /\ UNCHANGED <<env, heap, decls, hist>>

lut4_step5 ==
    /\ frame.fn = "lut4" /\ frame.pc = "line5"
    /\ frame' = lut4_assign(frame, lut4_line5(frame.A, frame.init), "line6")
    /\ UNCHANGED <<env, heap, decls, hist>>

lut4_step6 ==
    /\ frame.fn = "lut4" /\ frame.pc = "line6"
    /\ frame' = lut4_assign(frame, lut4_line6(frame.B, frame.tmp), "line7")
    /\ UNCHANGED <<env, heap, decls, hist>>

lut4_step7 ==
    /\ frame.fn = "lut4" /\ frame.pc = "line7"
    /\ frame' = lut4_assign(frame, lut4_line7(frame.C, frame.tmp), "line8")
    /\ UNCHANGED <<env, heap, decls, hist>>

lut4_step8 ==
    /\ frame.fn = "lut4" /\ frame.pc = "line8"
    /\ frame' = lut4_assign(frame, lut4_line8(frame.D, frame.tmp), "line9")
    /\ UNCHANGED <<env, heap, decls, hist>>

lut4_return ==
    /\ frame.fn = "lut4" /\ frame.pc = "line9"
    /\ frame' = [frame EXCEPT !.ret = lut4_line9(frame.tmp), !.pc = "done"]
    /\ UNCHANGED <<env, heap, decls, hist>>

\* The caller drops the result (or the exception) of the finished call.
Resume ==
    /\ frame.pc \in {"done", "raise"}
    /\ frame' = Idle
    /\ UNCHANGED <<env, heap, decls, hist>>

\* mux(C, A, B) called directly.
mux_call(C, A, B) ==
    /\ frame.pc \in {"idle", "done", "raise"}
    /\ frame' = LET r == mux(C, A, B)
                IN  [fn |-> "mux", pc |-> IF IsTerm(r) THEN "done" ELSE "raise",
                     C |-> C, A |-> A, B |-> B, ret |-> r]
    /\ UNCHANGED <<env, heap, decls, hist>>

---------------------------------------------------------------------------
(* SpecLut: one LUT4 instance, invoked on boolean inputs and on inputs     *)
(* taken from its own earlier output.                                      *)

RECURSIVE WithOnes(_)
\* The 16-bit values with at most n bits set.
WithOnes(n) ==
    IF n = 0 THEN {0}
    ELSE LET S == WithOnes(n - 1)
         IN  S \cup {s + Pow2(k) : <<s, k>> \in
                       {p \in S \X (0 .. InitWidth - 1) : Bit(p[1], p[2]) = 0}}

LutInits == WithOnes(MaxOnes) \cup {Pow2(InitWidth) - 1}

\* The earlier output of lut4, if the last call returned one.
LutOutput == IF frame.fn = "lut4" /\ frame.pc = "done" THEN {frame.ret} ELSE {}

InitLut ==
    /\ env \in {[n \in {"lut_init"} |-> v] : v \in LutInits}
    /\ heap = <<>>
    /\ decls = <<>>
    /\ frame = Idle
    /\ hist = NoHist

NextLut ==
    \/ heap = <<>> /\ LUT4_init("lut")
    \/ /\ heap # <<>>
       /\ \E A, B, C, D \in BoolVals \cup LutOutput :
            /\ Cardinality({i \in 1 .. 4 : <<A, B, C, D>>[i] \notin BoolVals}) <= 1
            /\ LUT4_call(heap[1], A, B, C, D)
    \/ lut4_step5
    \/ lut4_step6
    \/ lut4_step7
    \/ lut4_step8
    \/ lut4_return
    \/ \E C \in LutOutput : \E A, B \in BoolVals : mux_call(C, A, B)
    \/ Resume

SpecLut == InitLut /\ [][NextLut]_vars

---------------------------------------------------------------------------
(* Properties of lut4 and the LUT4 wrapper (SpecLut).                      *)

InLut4 == frame.fn = "lut4"

\* All four select inputs of the running lut4 call are booleans.
AllBool == {frame.A, frame.B, frame.C, frame.D} \subseteq BoolVals

\* The field of v that is w bits wide and whose lowest bit is bit `off`.
Field(v, off, w) == (v \div Pow2(off)) % Pow2(w)

\* C1: for every 16-bit init and every boolean (A, B, C, D), lut4 returns,
\* without raising, bit number A*8 + B*4 + C*2 + D of init (bit 0 the least
\* significant); for init = 2 the result is 1 exactly for (0, 0, 0, 1).
C1_Lut4SelectsIndexedBit ==
    (InLut4 /\ AllBool) =>
        /\ frame.pc # "raise"
        /\ frame.pc = "done" =>
             /\ frame.ret.val =
                    Bit(frame.init.val, frame.A.val * 8 + frame.B.val * 4
                                        + frame.C.val * 2 + frame.D.val)
             /\ frame.init.val = 2 =>
                    (frame.ret.val = 1 <=>
                        <<frame.A.val, frame.B.val, frame.C.val, frame.D.val>>
                            = <<0, 0, 0, 1>>)

\* The spec's example: init = 2 and (A, B, C, D) = (0, 0, 0, 1) decoded to 1.
C1_Witness ==
    /\ InLut4 /\ frame.pc = "done" /\ AllBool
    /\ frame.init.val = 2
    /\ <<frame.A.val, frame.B.val, frame.C.val, frame.D.val>> = <<0, 0, 0, 1>>
    /\ frame.ret.val = 1

\* C10: after stage k of lut4 (k = 1..4, consuming A, B, C, D) tmp is
\* 16 / 2^k bits wide and is the field of init of that width at offset
\* 8A, 8A + 4B, 8A + 4B + 2C, 8A + 4B + 2C + D; with boolean inputs no
\* stage raises, so every extracted range lies inside its operand.
C10_StageWidthsAndOffsets ==
    InLut4 =>
        /\ AllBool => frame.pc # "raise"
        /\ frame.pc = "line6" =>
             frame.tmp = BV(8, Field(frame.init.val, 8 * frame.A.val, 8))
        /\ frame.pc = "line7" =>
             frame.tmp = BV(4, Field(frame.init.val,
                                     8 * frame.A.val + 4 * frame.B.val, 4))
        /\ frame.pc = "line8" =>
             frame.tmp = BV(2, Field(frame.init.val,
                                     8 * frame.A.val + 4 * frame.B.val
                                     + 2 * frame.C.val, 2))
        /\ frame.pc \in {"line9", "done"} =>
             frame.tmp = BV(1, Field(frame.init.val,
                                     8 * frame.A.val + 4 * frame.B.val
                                     + 2 * frame.C.val + frame.D.val, 1))

\* Stage 3 has selected the top pair (bits 15-14) of a configuration that
\* has both of them set.
C10_Witness ==
    /\ InLut4 /\ frame.pc = "line8"
    /\ frame.A.val = 1 /\ frame.B.val = 1 /\ frame.C.val = 1
    /\ frame.tmp = BV(2, 3)

\* C7 as stated: a LUT4 invoked on four booleans returns a value of boolean
\* type.
C7_LutOutputIsBool ==
    (InLut4 /\ frame.pc = "done" /\ AllBool) => frame.ret.sort = "Bool"

\* C7 amended: a LUT4 invoked on four booleans returns a 1-bit bit-vector
\* (the decoded bit), which is not of the boolean type of extracted bits
\* and selectors: a LUT4 call given such an output as a select input raises
\* and returns nothing, and so does mux given it as the selector.
C7_LutOutputIsOneBitVector ==
    /\ (InLut4 /\ frame.pc = "done" /\ AllBool) =>
           /\ frame.ret.sort = "BitVec" /\ frame.ret.size = 1
           /\ frame.ret \notin BoolVals
    /\ (InLut4 /\ ~AllBool) => frame.pc \notin {"line9", "done"}
    /\ (frame.fn = "mux" /\ frame.C \notin BoolVals) => frame.pc = "raise"

\* An earlier output of the LUT4 was passed as input D of a later call, and
\* the call raised at the stage that consumes D.
C7_Witness ==
    /\ InLut4 /\ frame.pc = "raise"
    /\ frame.D.sort = "BitVec" /\ frame.D.size = 1
    /\ frame.tmp.size = 2

---------------------------------------------------------------------------
(* SpecExtract: extract_to_bool_array run step by step.                    *)

\* The frame of extract_to_bool_array on entry: ret = [], the range at high.
extract_entry(high, low, x) ==
    [fn |-> "extract_to_bool_array", pc |-> "line18",
     high |-> high, low |-> low, x |-> x, i |-> high, ret |-> <<>>]

extract_call(high, low, x) ==
    /\ frame.pc \in {"idle", "done", "raise"}
    /\ frame' = extract_entry(high, low, x)
    /\ UNCHANGED <<env, heap, decls, hist>>

\* One iteration of the loop, lines 18-21.
extract_iterate ==
    /\ frame.fn = "extract_to_bool_array" /\ frame.pc = "line18"
    /\ range_has_next(frame.i, frame.low)
    /\ LET b == extract_body(frame.i, frame.x)
       IN  frame' = IF IsTerm(b)
                    THEN [frame EXCEPT !.ret = Append(@, b), !.i = @ - 1]
                    ELSE [frame EXCEPT !.pc = "raise"]
    /\ UNCHANGED <<env, heap, decls, hist>>

\* The range is exhausted: line 22, return ret.
extract_return ==
    /\ frame.fn = "extract_to_bool_array" /\ frame.pc = "line18"
    /\ ~range_has_next(frame.i, frame.low)
    /\ frame' = [frame EXCEPT !.pc = "done"]
    /\ UNCHANGED <<env, heap, decls, hist>>

\* The values extraction is tried on: every bit-vector of 1..MaxWidth bits,
\* and the booleans (which are not bit-vectors).
ExtractOperands ==
    {BV(w, v) : <<w, v>> \in {p \in (1 .. MaxWidth) \X (0 .. Pow2(MaxWidth) - 1) :
                                p[2] < Pow2(p[1])}} \cup BoolVals

NoEnv == [n \in {} |-> 0]

InitExtract ==
    /\ env = NoEnv
    /\ heap = <<>>
    /\ decls = <<>>
    /\ frame = Idle
    /\ hist = NoHist

NextExtract ==
    \/ \E x \in ExtractOperands : \E high, low \in 0 .. MaxWidth :
         /\ frame = Idle
         /\ high <= x.size /\ low <= x.size
         /\ extract_call(high, low, x)
    \/ extract_iterate
    \/ extract_return
    \/ Resume

SpecExtract == InitExtract /\ [][NextExtract]_vars

InExtract == frame.fn = "extract_to_bool_array"

\* The precondition of C2: x is W bits wide and W > high >= low >= 0.
ExtractPre ==
    /\ frame.x.sort = "BitVec"
    /\ frame.x.size > frame.high /\ frame.high >= frame.low /\ frame.low >= 0

\* C2: for a width-W x and W > high >= low >= 0, extract_to_bool_array
\* returns, without raising, exactly high - low + 1 booleans, the one at
\* position k (k = 0 first) true iff bit high - k of x is 1.
C2_ExtractMsbFirst ==
    (InExtract /\ ExtractPre) =>
        /\ frame.pc # "raise"
        /\ frame.pc = "done" =>
             /\ Len(frame.ret) = frame.high - frame.low + 1
             /\ \A k \in 0 .. frame.high - frame.low :
                    frame.ret[k + 1] = BoolV(Bit(frame.x.val, frame.high - k))

\* Bits 3..1 of the 4-bit value 1010 came out as true, false, true.
C2_Witness ==
    /\ InExtract /\ frame.pc = "done"
    /\ frame.x = BV(4, 10) /\ frame.high = 3 /\ frame.low = 1
    /\ frame.ret = <<BoolV(1), BoolV(0), BoolV(1)>>

---------------------------------------------------------------------------
(* SpecMux: mux called directly and through one MUX instance.              *)

\* MUX(prefix): constructs the instance and creates its selector.
MUX_init(prefix) ==
    /\ heap' = Append(heap, MUX_new(prefix))
    /\ decls' = decls \o CreatedNames(MUX_new(prefix))
    /\ UNCHANGED <<env, frame, hist>>

\* MUX.__call__(self, A, B): mux with the owned selector.
MUX_call(self, A, B) ==
    /\ self.cls = "MUX"
    /\ frame.pc \in {"idle", "done", "raise"}
    /\ frame' = LET C == Eval(self.selector, env)
                    r == MUX_apply(self, env, A, B)
                IN  [fn |-> "MUX.__call__", pc |-> IF IsTerm(r) THEN "done" ELSE "raise",
                     C |-> C, A |-> A, B |-> B, ret |-> r]
    /\ UNCHANGED <<env, heap, decls, hist>>

\* The operands mux is tried on: the booleans and every bit-vector of
\* 1..MaxWidth bits.
MuxOperands == ExtractOperands

InitMux ==
    /\ env \in {[n \in {"mux_selector"} |-> v] : v \in {0, 1}}
    /\ heap = <<>>
    /\ decls = <<>>
    /\ frame = Idle
    /\ hist = NoHist

NextMux ==
    \/ heap = <<>> /\ MUX_init("mux")
    \/ frame = Idle /\ \E C \in BoolVals : \E A, B \in MuxOperands : mux_call(C, A, B)
    \/ frame = Idle /\ heap # <<>> /\ \E A, B \in MuxOperands : MUX_call(heap[1], A, B)
    \/ Resume

SpecMux == InitMux /\ [][NextMux]_vars

InMux == frame.fn \in {"mux", "MUX.__call__"}

\* C3: for A and B of one type, mux(C, A, B) is A under every assignment
\* that makes the selector C true and B under every one that makes it
\* false; a MUX instance's call does the same with C its owned selector.
C3_MuxSelects ==
    InMux =>
        /\ (frame.A.sort = frame.B.sort /\ frame.A.size = frame.B.size) =>
             /\ frame.pc = "done"
             /\ frame.C.val = 1 => frame.ret = frame.A
             /\ frame.C.val = 0 => frame.ret = frame.B
        /\ frame.fn = "MUX.__call__" =>
             /\ heap[1].selector.name = heap[1].prefix \o "_selector"
             /\ frame.C = BoolV(env[heap[1].selector.name])

\* A MUX whose selector is false was given two different 2-bit values and
\* returned the second.
C3_Witness ==
    /\ frame.fn = "MUX.__call__" /\ frame.pc = "done"
    /\ env["mux_selector"] = 0
    /\ frame.A = BV(2, 1) /\ frame.B = BV(2, 2)
    /\ frame.ret = BV(2, 2)

---------------------------------------------------------------------------
(* SpecSlice: one Slice, constructed and called on every 8-bit input.      *)

\* Slice(prefix, solver): constructs the instance, its two LUT4s and its
\* two MUXes, creating their four symbolic constants.
Slice_init(prefix, solver) ==
    /\ heap' = Append(heap, Slice_new(prefix, solver))
    /\ decls' = decls \o CreatedNames(Slice_new(prefix, solver))
    /\ UNCHANGED <<env, frame, hist>>

\* Slice.__call__(heap[k], inputs, FXA, FXB), the whole call.
Slice_call(k, inputs, FXA, FXB) ==
    /\ k \in 1 .. Len(heap) /\ heap[k].cls = "Slice"
    /\ frame.pc \in {"idle", "done", "raise"}
    /\ LET r == Slice_effect(heap[k], env, inputs, FXA, FXB)
       IN  /\ heap' = [heap EXCEPT ![k] = r.self]
           /\ frame' = Slice_frame(r, inputs, FXA, FXB)
    /\ UNCHANGED <<env, decls, hist>>

\* The assignments of one Slice's four constants with the configurations
\* drawn from `inits`.
SliceEnvs(prefix, inits) ==
    {[n \in {prefix \o "_lut_0_init", prefix \o "_lut_1_init",
             prefix \o "_PFUMX_selector", prefix \o "_L6MUX21_selector"} |->
        IF n = prefix \o "_lut_0_init" THEN v[1]
        ELSE IF n = prefix \o "_lut_1_init" THEN v[2]
        ELSE IF n = prefix \o "_PFUMX_selector" THEN v[3] ELSE v[4]]
     : v \in inits \X inits \X {0, 1} \X {0, 1}}

\* The configurations of SpecSlice: the spec's example (only bit 1 set) and
\* the truth tables of the four projections A, B, C, D, which tell every
\* order of the select inputs apart.
SliceInits == {2, 65280, 61680, 52428, 43690}

\* The inputs of SpecSlice: every 8-bit value, and a 4-bit value, which is
\* too narrow for Extract(7, 7, ...).
SliceInputs == {BV(InputWidth, v) : v \in 0 .. Pow2(InputWidth) - 1} \cup {BV(4, 0)}

InitSlice ==
    /\ env \in SliceEnvs("s", SliceInits)
    /\ heap = <<>>
    /\ decls = <<>>
    /\ frame = Idle
    /\ hist = NoHist

NextSlice ==
    \/ heap = <<>> /\ Slice_init("s", "solver")
    \/ /\ frame = Idle
       /\ \E inputs \in SliceInputs : \E FXA, FXB \in BoolVals :
            Slice_call(1, inputs, FXA, FXB)
    \/ Resume

SpecSlice == InitSlice /\ [][NextSlice]_vars

InSlice == frame.fn = "Slice.__call__"

\* C4: for every 8-bit in8 and every pair of configurations, a Slice call
\* returns F0 = bit (in8 div 16) of the first LUT4's configuration and
\* F1 = bit (in8 mod 16) of the second's: bits 7 and 3 are the most
\* significant select inputs, bits 4 and 0 the least significant.
C4_SliceLutOutputs ==
    (InSlice /\ frame.inputs.sort = "BitVec" /\ frame.inputs.size = 8) =>
        /\ frame.pc = "done"
        /\ frame.F0 = BV(1, Bit(env[heap[1].prefix \o "_lut_0_init"],
                                frame.inputs.val \div 16))
        /\ frame.F1 = BV(1, Bit(env[heap[1].prefix \o "_lut_1_init"],
                                frame.inputs.val % 16))

\* in8 = 0x1E: F0 is bit 1 of the configuration 2, so 1; F1 is bit 14 of the
\* truth table of D, so 0.
C4_Witness ==
    /\ InSlice /\ frame.pc = "done"
    /\ frame.inputs = BV(8, 30)
    /\ env["s_lut_0_init"] = 2 /\ env["s_lut_1_init"] = 43690
    /\ frame.F0 = BV(1, 1) /\ frame.F1 = BV(1, 0)

\* C5: for every Slice call that returns, OFX0 is F0 when the PFUMX
\* selector is true and F1 when it is false, OFX1 is FXA when the L6MUX21
\* selector is true and FXB when it is false, and the two selectors are two
\* different symbolic values.
C5_SliceMuxOutputs ==
    (InSlice /\ frame.pc = "done") =>
        /\ frame.OFX0 = IF env[heap[1].prefix \o "_PFUMX_selector"] = 1
                        THEN frame.F0 ELSE frame.F1
        /\ frame.OFX1 = IF env[heap[1].prefix \o "_L6MUX21_selector"] = 1
                        THEN frame.FXA ELSE frame.FXB
        /\ heap[1].pfumx.selector.name = heap[1].prefix \o "_PFUMX_selector"
        /\ heap[1].l6mux21.selector.name = heap[1].prefix \o "_L6MUX21_selector"
        /\ heap[1].pfumx.selector.name # heap[1].l6mux21.selector.name

\* The two selectors differ, F0 differs from F1 and FXA from FXB: OFX0 is
\* F0 and OFX1 is FXB.
C5_Witness ==
    /\ InSlice /\ frame.pc = "done"
    /\ env["s_PFUMX_selector"] = 1 /\ env["s_L6MUX21_selector"] = 0
    /\ frame.F0 # frame.F1 /\ frame.FXA # frame.FXB
    /\ frame.OFX0 = frame.F0 /\ frame.OFX1 = frame.FXB

---------------------------------------------------------------------------
(* SpecSeq: sequences of calls on one constructed Slice and on its LUT4    *)
(* and MUX instances.  hist keeps the Slice and the assignment as          *)
(* construction left them, and one earlier Slice call.                     *)

\* The configurations of SpecSeq and SpecPair: bits 0 and 15 set, and bit 5
\* set; they differ on each of the nibbles 0, 5 and 15.
SeqInits == {32769, 32}

\* The inputs of SpecSeq: the 8-bit values with nibbles 0, 5 or 15, and a
\* 4-bit value (too narrow).
SeqInputs == {BV(InputWidth, 16 * h + l) : <<h, l>> \in {0, 5, 15} \X {0, 5, 15}}
             \cup {BV(4, 0)}

\* The caller keeps the Slice call that just finished for later comparison.
Remember ==
    /\ frame.fn = "Slice.__call__" /\ frame.pc \in {"done", "raise"}
    /\ hist' = [hist EXCEPT !.call = frame]
    /\ frame' = Idle
    /\ UNCHANGED <<env, heap, decls>>

InitSeq ==
    /\ env \in SliceEnvs("s", SeqInits)
    /\ heap = <<Slice_new("s", "solver")>>
    /\ decls = CreatedNames(Slice_new("s", "solver"))
    /\ frame = Idle
    /\ hist = [kind |-> "seq", built |-> heap[1], env0 |-> env, call |-> Idle]

NextSeq ==
    \/ /\ frame = Idle
       /\ \E inputs \in SeqInputs : \E FXA, FXB \in BoolVals :
            Slice_call(1, inputs, FXA, FXB)
    \/ /\ frame = Idle
       /\ \E lut \in {heap[1].lut4_0, heap[1].lut4_1} : \E A, B, C, D \in BoolVals :
            LUT4_call(lut, A, B, C, D)
    \/ /\ frame = Idle
       /\ \E m \in {heap[1].pfumx, heap[1].l6mux21} : \E A, B \in BoolVals :
            MUX_call(m, A, B)
    \/ lut4_step5
    \/ lut4_step6
    \/ lut4_step7
    \/ lut4_step8
    \/ lut4_return
    \/ Remember
    \/ Resume

SpecSeq == InitSeq /\ [][NextSeq]_vars

\* The frame is a Slice call with the arguments of the remembered one.
SameArgsAsEarlier ==
    /\ InSlice /\ hist.call.fn = "Slice.__call__"
    /\ frame.inputs = hist.call.inputs
    /\ frame.FXA = hist.call.FXA /\ frame.FXB = hist.call.FXB

\* C9: after any sequence of calls on a Slice and on its LUT4 and MUX
\* instances, its prefix, solver, two configurations and two selectors (and
\* their values under the assignment) are as construction left them, and a
\* call with the arguments of an earlier call returns what that call did.
C9_SliceCallsLeaveNoTrace ==
    /\ heap = <<hist.built>>
    /\ heap[1] = Slice_new("s", "solver")
    /\ env = hist.env0
    /\ SameArgsAsEarlier => frame = hist.call

\* A later call repeated the arguments of the remembered call, which had
\* returned two different LUT4 outputs.
C9_Witness ==
    /\ SameArgsAsEarlier /\ frame.pc = "done"
    /\ frame.F0 # frame.F1
    /\ frame.OFX0 = hist.call.OFX0

---------------------------------------------------------------------------
(* SpecPair: two Slice calls side by side, the one in frame under env, the *)
(* other in hist under an assignment of its own.                           *)

\* The inputs of SpecPair: the 8-bit values with nibbles 5 or 15.
PairInputs == {BV(InputWidth, 16 * h + l) : <<h, l>> \in {5, 15} \X {5, 15}}

\* The second run: the same Slice called under the assignment hist.env.
Pair_call(k, inputs, FXA, FXB) ==
    /\ k \in 1 .. Len(heap) /\ heap[k].cls = "Slice"
    /\ hist.call = Idle
    /\ LET r == Slice_effect(heap[k], hist.env, inputs, FXA, FXB)
       IN  /\ heap' = [heap EXCEPT ![k] = r.self]
           /\ hist' = [hist EXCEPT !.call = Slice_frame(r, inputs, FXA, FXB)]
    /\ UNCHANGED <<env, decls, frame>>

InitPair ==
    /\ env \in SliceEnvs("s", SeqInits)
    /\ heap = <<Slice_new("s", "solver")>>
    /\ decls = CreatedNames(Slice_new("s", "solver"))
    /\ frame = Idle
    /\ hist \in {[kind |-> "pair", env |-> e, call |-> Idle] :
                    e \in SliceEnvs("s", SeqInits)}

NextPair ==
    \/ /\ frame = Idle
       /\ \E inputs \in PairInputs : \E FXA, FXB \in BoolVals :
            Slice_call(1, inputs, FXA, FXB)
    \/ \E inputs \in PairInputs : \E FXA, FXB \in BoolVals :
            Pair_call(1, inputs, FXA, FXB)

SpecPair == InitPair /\ [][NextPair]_vars

\* Both runs have returned.
BothDone ==
    /\ InSlice /\ frame.pc = "done"
    /\ hist.call.fn = "Slice.__call__" /\ hist.call.pc = "done"

SameAt(name) == env["s" \o name] = hist.env["s" \o name]

\* C6: of two Slice calls side by side, F0 is the same whenever they agree
\* on bits 7-4 of in8 and on the first LUT4's configuration; F1 whenever
\* they agree on bits 3-0 and on the second's; OFX0 whenever they differ
\* only in FXA and FXB; OFX1 whenever they differ only in in8 and in the
\* two configurations.
C6_SliceOutputDependencies ==
    BothDone =>
        /\ (/\ frame.inputs.val \div 16 = hist.call.inputs.val \div 16
            /\ SameAt("_lut_0_init"))
               => frame.F0 = hist.call.F0
        /\ (/\ frame.inputs.val % 16 = hist.call.inputs.val % 16
            /\ SameAt("_lut_1_init"))
               => frame.F1 = hist.call.F1
        /\ (frame.inputs = hist.call.inputs /\ env = hist.env)
               => frame.OFX0 = hist.call.OFX0
        /\ (/\ frame.FXA = hist.call.FXA /\ frame.FXB = hist.call.FXB
            /\ SameAt("_PFUMX_selector") /\ SameAt("_L6MUX21_selector"))
               => frame.OFX1 = hist.call.OFX1

\* Two runs that agree on bits 7-4 and on the first configuration only, and
\* differ in everything else, OFX1 included: F0 is the same.
C6_Witness ==
    /\ BothDone
    /\ frame.inputs.val \div 16 = hist.call.inputs.val \div 16
    /\ SameAt("_lut_0_init")
    /\ frame.inputs.val % 16 # hist.call.inputs.val % 16
    /\ ~SameAt("_lut_1_init")
    /\ ~SameAt("_PFUMX_selector") /\ ~SameAt("_L6MUX21_selector")
    /\ frame.FXA # hist.call.FXA /\ frame.FXB # hist.call.FXB
    /\ frame.OFX1 # hist.call.OFX1
    /\ frame.F0 = BV(1, 1) /\ hist.call.F0 = BV(1, 1)

---------------------------------------------------------------------------
(* SpecNames: several LUT4, MUX and Slice instances constructed in one     *)
(* model, each from a caller-supplied prefix.                              *)

\* The suffixes Slice.__init__ appends to its prefix for its four parts.
SubPrefixes == {"_lut_0", "_lut_1", "_PFUMX", "_L6MUX21"}

\* The prefixes callers supply in SpecNames: two plain ones, and two that
\* spell out what a Slice named "a" derives for its parts.
Prefixes == {"a", "b", "a_lut_0", "a_PFUMX"}

InitNames ==
    /\ env = NoEnv
    /\ heap = <<>>
    /\ decls = <<>>
    /\ frame = Idle
    /\ hist = NoHist

NextNames ==
    \/ \E prefix \in Prefixes : Len(heap) < MaxInstances /\ LUT4_init(prefix)
    \/ \E prefix \in Prefixes : Len(heap) < MaxInstances /\ MUX_init(prefix)
    \/ \E prefix \in Prefixes :
         Len(heap) < MaxInstances /\ Slice_init(prefix, "solver")

SpecNames == InitNames /\ [][NextNames]_vars

\* The prefixes the caller supplied are pairwise distinct.
DistinctPrefixes ==
    \A i, j \in 1 .. Len(heap) : i # j => heap[i].prefix # heap[j].prefix

\* No caller-supplied prefix is a Slice's prefix followed by one of the
\* sub-prefix suffixes.
NoDerivedPrefix ==
    \A i, j \in 1 .. Len(heap) :
        heap[i].cls = "Slice" =>
            \A sub \in SubPrefixes : heap[j].prefix # heap[i].prefix \o sub

\* No two symbolic constants were created under one name.
DistinctNames ==
    \A i, j \in 1 .. Len(decls) : i # j => decls[i] # decls[j]

\* The constants created are the owned ones, named as the claim says.
OwnedNamesAsDerived ==
    /\ \A i \in 1 .. Len(heap) :
         /\ heap[i].cls = "LUT4" => heap[i].mem.name = heap[i].prefix \o "_init"
         /\ heap[i].cls = "MUX" =>
                heap[i].selector.name = heap[i].prefix \o "_selector"
         /\ heap[i].cls = "Slice" =>
                CreatedNames(heap[i]) =
                    <<heap[i].prefix \o "_lut_0_init", heap[i].prefix \o "_lut_1_init",
                      heap[i].prefix \o "_PFUMX_selector",
                      heap[i].prefix \o "_L6MUX21_selector">>
    /\ Len(decls) = Len(heap)
           + 3 * Cardinality({i \in 1 .. Len(heap) : heap[i].cls = "Slice"})

\* C8 as stated: if the caller-supplied prefixes are pairwise distinct, no
\* two owned symbolic values get the same name.
C8_DistinctPrefixesGiveDistinctNames == DistinctPrefixes => DistinctNames

\* C8 amended: the owned values are named prefix + "_init" and
\* prefix + "_selector" (a Slice passing prefix + "_lut_0", "_lut_1",
\* "_PFUMX", "_L6MUX21"), and if the caller-supplied prefixes are pairwise
\* distinct and none of them is a Slice's prefix followed by one of those
\* four suffixes, no two owned symbolic values get the same name.
C8_DistinctUnderivedPrefixesGiveDistinctNames ==
    /\ OwnedNamesAsDerived
    /\ (DistinctPrefixes /\ NoDerivedPrefix) => DistinctNames

\* A Slice and a LUT4 constructed from two unrelated prefixes: five
\* constants, all differently named.
C8_Witness ==
    /\ Len(heap) = 2
    /\ {heap[1].cls, heap[2].cls} = {"Slice", "LUT4"}
    /\ DistinctPrefixes /\ NoDerivedPrefix
    /\ Len(decls) = 5 /\ DistinctNames

=============================================================================
